---- MODULE Spec2Model ----
(***************************************************************************)
(* Model of the process table widget of bottom                             *)
(* (src/canvas/widgets/process_table.rs): draw_processes_table and         *)
(* draw_search_field, together with the three helpers of                   *)
(* canvas::drawing_utils they call (get_start_position,                    *)
(* get_search_start_position, get_variable_intrinsic_widths).              *)
(***************************************************************************)
EXTENDS Integers, Sequences, FiniteSets, TLC

(* ---------------------------- bounds ----------------------------------- *)
MaxRows == 3
MaxSel == 4
MaxHeight == 8

(* heights the host hands to the table: below, at and above the 5 rows of  *)
(* chrome                                                                  *)
Heights == 4..MaxHeight

(* the search query: at most MaxLen graphemes *)
MaxLen == 2

(* widths of the search field's rectangle: 0, the widths 7..MaxWidth from  *)
(* the 7 columns the short prompt and the chrome take upwards, and the     *)
(* widths at which each full prompt fits                                   *)
MaxWidth == 9

Widths == {0} \cup (7..MaxWidth) \cup {32, 60}

(* widths of the table's rectangle: 0..MaxTableWidth *)
MaxTableWidth == 60

(* u64 arithmetic wraps at this modulus in builds without overflow checks. *)
(* TLC integers are 32 bits wide, so the modulus is scaled down; every     *)
(* modelled quantity stays far below it.                                   *)
U64 == 1048576

(* the widget that has the focus.  Each draw tells its own widget from    *)
(* every other one (the `_` arms of its matches), so to the table the      *)
(* search field stands for all other widgets, and to the search field the  *)
(* table does.                                                             *)
WidgetPositions == {"Process", "ProcessSearch"}

Max(a, b) == IF a >= b THEN a ELSE b
Min(a, b) == IF a <= b THEN a ELSE b

VARIABLES
    process_data_len,           \* finalized_process_data.len()
    current_scroll_position,    \* process_scroll_state.current_scroll_position
    previous_scroll_position,   \* process_scroll_state.previous_scroll_position
    scroll_direction,           \* app_scroll_positions.scroll_direction
    is_resized,                 \* app_state.is_resized
    height,                     \* draw_loc.height of the table
    current_widget_selected,    \* a WidgetPosition
    start_position,             \* index the rows were sliced at in the last draw
    row_styles,                 \* style of each rendered row of the last draw
    column_widths,              \* widths the table was rendered with
    process_sorting_type,       \* "PID", "NAME", "CPU" or "MEM"
    table_status,               \* "none", "drawn" or "panic"
    query,                      \* current search query, a sequence of graphemes
    cursor,                     \* caret, as the number of graphemes before it
    cursor_direction,           \* search_state.cursor_direction
    cursor_bar,                 \* search_state.cursor_bar
    width,                      \* draw_loc.width of the search field
    is_grouped,                 \* app_state.is_grouped()
    is_searching_with_pid,      \* process_search_state.is_searching_with_pid
    search_start,               \* start_position of the last search field draw
    query_with_cursor,          \* styled graphemes of the last search field draw
    search_status               \* "none", "drawn" or "panic"

table_vars == <<process_data_len, current_scroll_position, previous_scroll_position,
                scroll_direction, is_resized, height, current_widget_selected,
                start_position, row_styles, column_widths, process_sorting_type,
                table_status>>

search_vars == <<query, cursor, cursor_direction, cursor_bar, width, is_grouped,
                 is_searching_with_pid, search_start, query_with_cursor,
                 search_status>>

vars == <<table_vars, search_vars>>

(* ------------------------ drawing_utils -------------------------------- *)

(* ScrollWindow: on a resize the previous top is forgotten; the top is     *)
(* kept while the selection is inside [top, top + num_rows) and recomputed *)
(* by direction otherwise; the result is written back to the bar.          *)
get_start_position(num_rows, direction, bar, selected, resized) ==
    LET base == IF resized THEN 0 ELSE bar
        inside == selected >= base /\ selected < base + num_rows
        top == IF ~resized /\ inside THEN base
               ELSE IF direction = "DOWN"
                    THEN Max(base, selected - num_rows + 1)
                    ELSE Min(base, selected)
    IN  [position |-> top, bar |-> top]

(* WidthAllocator.  Columns whose rounded share of the remaining budget   *)
(* is below their minimum get the minimum; the shares of the others are    *)
(* recomputed over what is left, to a fixed point; then the trailing       *)
(* columns that do not fit in full are dropped.                            *)
RECURSIVE SumOver(_, _, _)
SumOver(f, cols, k) ==
    IF k = 0 THEN 0
    ELSE (IF k \in cols THEN f[k] ELSE 0) + SumOver(f, cols, k - 1)

(* budget * ratio / weight lies exactly between two integers *)
is_tie(budget, ratio, weight) ==
    /\ (2 * budget * ratio) % weight = 0
    /\ ((2 * budget * ratio) \div weight) % 2 = 1

(* round(budget * ratio / weight); of the columns whose share is a tie the *)
(* earlier one takes the extra cell: ties round up and down in turn        *)
rounded_share(budget, ratios, weight, undecided, i) ==
    LET earlier_ties == Cardinality({j \in undecided :
                                       j < i /\ is_tie(budget, ratios[j], weight)})
        down == (budget * ratios[i]) \div weight
    IN  IF is_tie(budget, ratios[i], weight)
        THEN IF earlier_ties % 2 = 0 THEN down + 1 ELSE down
        ELSE (2 * budget * ratios[i] + weight) \div (2 * weight)

RECURSIVE decide_minimums(_, _, _, _)
(* the set of columns that end at their minimum, starting from `decided` *)
decide_minimums(total, ratios, mins, decided) ==
    LET all == 1..Len(ratios)
        budget == total - SumOver(mins, decided, Len(mins))
        weight == SumOver(ratios, all \ decided, Len(ratios))
        narrow == {i \in all \ decided :
                     rounded_share(budget, ratios, weight, all \ decided, i)
                         < mins[i]}
    IN  IF narrow = {} THEN decided
        ELSE decide_minimums(total, ratios, mins, decided \cup narrow)

RECURSIVE fits_in_full(_, _, _)
(* the number of leading columns, at most k, whose widths sum to <= total *)
fits_in_full(widths, total, k) ==
    IF k = 0 THEN 0
    ELSE IF SumOver(widths, 1..k, k) <= total THEN k
    ELSE fits_in_full(widths, total, k - 1)

get_variable_intrinsic_widths(total, ratios, mins) ==
    LET all == 1..Len(ratios)
        decided == decide_minimums(total, ratios, mins, {})
        budget == total - SumOver(mins, decided, Len(mins))
        weight == SumOver(ratios, all \ decided, Len(ratios))
        widths == [i \in all |->
                     IF i \in decided THEN mins[i]
                     ELSE rounded_share(budget, ratios, weight, all \ decided, i)]
    IN  [widths |-> widths, kept |-> fits_in_full(widths, total, Len(ratios))]

(* --------------------- draw_processes_table ---------------------------- *)

(* mutants of num_rows: the chrome taken as 4 rows, and as 3 *)
num_rows_four(h) == Max(0, h - 4)

num_rows_three(h) == Max(0, h - 3)

(* rows of the rectangle left for processes *)
num_rows(h) == Max(0, h - 5)

(* mutant of table_position: is_resized is not passed on *)
table_position_stale(h, direction, bar, selected, resized) ==
    get_start_position(Max(0, h - 5), direction, bar, selected, FALSE)

table_position(h, direction, bar, selected, resized) ==
    get_start_position(num_rows(h), direction, bar, selected, resized)

sanity_check(position, len) ==
    IF position >= len THEN Max(0, len - 1) ELSE position

(* rows the table widget pulls from the row iterator *)
rendered_rows(len, start, h) == Min(len - start, num_rows(h))

as_u64(c) == IF c < 0 THEN U64 + c ELSE c

(* the closure of process_rows applied to n rows in order, threading       *)
(* process_counter; target is current_scroll_position - start_position     *)
RECURSIVE process_rows(_, _, _, _)
process_rows(n, process_counter, target, focus) ==
    IF n = 0 THEN <<>>
    ELSE IF focus = "Process"
         THEN IF as_u64(process_counter) = target
              THEN <<"selected">> \o process_rows(n - 1, -1, target, focus)
              ELSE <<"text">> \o
                   process_rows(n - 1,
                                IF process_counter >= 0 THEN process_counter + 1
                                                        ELSE process_counter,
                                target, focus)
         ELSE <<"text">> \o process_rows(n - 1, process_counter, target, focus)

(* the subtraction of the closure underflows *)
selection_underflows(current, start, n, focus) ==
    n > 0 /\ focus = "Process" /\ current < start

(* byte lengths of the four header labels; the arrow appended to the      *)
(* sorted column is 3 bytes of UTF-8                                       *)
process_headers_lens(grouped, sorting) ==
    <<(IF grouped THEN 5 ELSE 6) + (IF sorting = "PID" THEN 3 ELSE 0),
      7 + (IF sorting = "NAME" THEN 3 ELSE 0),
      7 + (IF sorting = "CPU" THEN 3 ELSE 0),
      7 + (IF sorting = "MEM" THEN 3 ELSE 0)>>

(* the ratios 0.2, 0.4, 0.2, 0.2 in tenths *)
width_ratios == <<2, 4, 2, 2>>

(* mutant of intrinsic_widths: every width of the allocator is used *)
intrinsic_widths_all(results) == results.widths

(* the widths handed to the table: the first `kept` of the allocator's *)
intrinsic_widths(results) == SubSeq(results.widths, 1, results.kept)

draw_processes_table(len, current, bar, direction, resized, h, w, focus, grouped, sorting, outcome) ==
    LET got == table_position(h, direction, bar, current, resized)
        start == sanity_check(got.position, len)
        n == rendered_rows(len, start, h)
        under == selection_underflows(current, start, n, focus)
        target == (current - start) % U64
        results == get_variable_intrinsic_widths(
                       w, width_ratios, process_headers_lens(grouped, sorting))
        slice_fails == results.kept > Len(results.widths)
    IN  IF slice_fails \/ (under /\ outcome = "panic")
        THEN [bar |-> got.bar, start |-> start, styles |-> <<>>,
              widths |-> <<>>, status |-> "panic"]
        ELSE [bar |-> got.bar,
              start |-> start,
              styles |-> process_rows(n, 0, target, focus),
              widths |-> intrinsic_widths(results),
              status |-> "drawn"]

DrawTableResult(outcome) ==
    draw_processes_table(process_data_len, current_scroll_position,
                         previous_scroll_position, scroll_direction, is_resized,
                         height, width, current_widget_selected, is_grouped,
                         process_sorting_type, outcome)

DrawTable ==
    /\ table_status # "panic"
    /\ search_status # "panic"
    /\ \E outcome \in {"panic", "wrap"} :
         LET r == DrawTableResult(outcome)
         IN  /\ previous_scroll_position' = r.bar
             /\ start_position' = r.start
             /\ row_styles' = r.styles
             /\ column_widths' = r.widths
             /\ table_status' = r.status
    /\ UNCHANGED <<process_data_len, current_scroll_position, scroll_direction,
                   is_resized, height, current_widget_selected,
                   process_sorting_type>>
    /\ UNCHANGED search_vars

(* ----------------------- draw_search_field ---------------------------- *)

(* a grapheme of the query is one of: a zero width joiner (no column,      *)
(* 3 bytes), an ASCII letter (1 column, 1 byte), a CJK ideograph           *)
(* (2 columns, 3 bytes)                                                    *)
Graphemes == {"zwj", "ascii", "cjk"}

UnicodeWidth(g) == IF g = "zwj" THEN 0 ELSE IF g = "ascii" THEN 1 ELSE 2

ByteLen(g) == IF g = "ascii" THEN 1 ELSE 3

RECURSIVE byte_offset(_, _)
(* byte offset of the grapheme after the first k graphemes of q *)
byte_offset(q, k) ==
    IF k = 0 THEN 0 ELSE byte_offset(q, k - 1) + ByteLen(q[k])

RECURSIVE display_columns(_, _)
(* display columns of the first k graphemes of q *)
display_columns(q, k) ==
    IF k = 0 THEN 0 ELSE display_columns(q, k - 1) + UnicodeWidth(q[k])

(* App::get_cursor_position: the caret as a byte offset into the query *)
get_cursor_position(q, c) == byte_offset(q, c)

(* App::get_char_cursor_position: display columns preceding the caret *)
get_char_cursor_position(q, c) == display_columns(q, c)

(* SearchCursorWindow: the policy of get_start_position, over columns *)
get_search_start_position(num_columns, direction, bar, position, resized) ==
    LET base == IF resized THEN 0 ELSE bar
        inside == position >= base /\ position < base + num_columns
        left == IF ~resized /\ inside THEN base
                ELSE IF direction = "RIGHT"
                     THEN Max(base, position - num_columns + 1)
                     ELSE Min(base, position)
    IN  [position |-> left, bar |-> left]

chosen_text_len(grouped, with_pid) ==
    IF grouped THEN 16
    ELSE IF with_pid THEN 30
    ELSE 30

search_title_len(num_columns, chosen_len) ==
    IF chosen_len = Min(num_columns \div 2, chosen_len) THEN chosen_len
    ELSE IF chosen_len = 0 THEN 0
    ELSE 2

(* num_columns - num_chars_for_text - 5, before any wrapping *)
search_viewport(num_columns, grouped, with_pid) ==
    num_columns - search_title_len(num_columns, chosen_text_len(grouped, with_pid)) - 5

(* mutant of search_position: cursor_bar and the caret's column swapped *)
search_position_swapped(viewport, direction, bar, position, resized) ==
    get_search_start_position(viewport % U64, direction, position, bar, resized)

search_position(viewport, direction, bar, position, resized) ==
    get_search_start_position(viewport % U64, direction, bar, position, resized)

(* mutant of keeps_grapheme: < for <= *)
keeps_grapheme_strict(current_grapheme_posn, start) ==
    ~(current_grapheme_posn < start)

keeps_grapheme(current_grapheme_posn, start) == ~(current_grapheme_posn <= start)

RECURSIVE styled_graphemes(_, _, _, _, _, _)
(* the filter_map over grapheme_indices: i is the grapheme looked at, posn *)
(* the columns and offset the bytes of the graphemes before it             *)
styled_graphemes(q, i, posn, offset, start, caret) ==
    IF i > Len(q) THEN <<>>
    ELSE LET current_grapheme_posn == posn + UnicodeWidth(q[i])
             rest == styled_graphemes(q, i + 1, current_grapheme_posn,
                                      offset + ByteLen(q[i]), start, caret)
         IN  IF keeps_grapheme(current_grapheme_posn, start)
             THEN <<[grapheme |-> i,
                     style |-> IF offset = caret THEN "selected" ELSE "text"]>>
                  \o rest
             ELSE rest

(* the space pushed when the caret is at or past the end of the query *)
CaretSpace == [grapheme |-> 0, style |-> "selected"]

build_query_with_cursor(q, start, caret, focus) ==
    IF focus = "ProcessSearch"
    THEN styled_graphemes(q, 1, 0, 0, start, caret)
         \o (IF caret >= byte_offset(q, Len(q)) THEN <<CaretSpace>> ELSE <<>>)
    ELSE styled_graphemes(q, 1, 0, 0, start, -1)

draw_search_field(w, grouped, with_pid, q, c, direction, bar, resized, focus, outcome) ==
    LET viewport == search_viewport(w, grouped, with_pid)
        under == viewport < 0
        got == search_position(viewport, direction, bar,
                               get_char_cursor_position(q, c), resized)
    IN  IF under /\ outcome = "panic"
        THEN [bar |-> bar, start |-> 0, text |-> <<>>, status |-> "panic"]
        ELSE [bar |-> got.bar,
              start |-> got.position,
              text |-> build_query_with_cursor(q, got.position,
                                               get_cursor_position(q, c), focus),
              status |-> "drawn"]

DrawSearchResult(outcome) ==
    draw_search_field(width, is_grouped, is_searching_with_pid, query, cursor,
                      cursor_direction, cursor_bar, is_resized,
                      current_widget_selected, outcome)

DrawSearch ==
    /\ table_status # "panic"
    /\ search_status # "panic"
    /\ \E outcome \in {"panic", "wrap"} :
         LET r == DrawSearchResult(outcome)
         IN  /\ cursor_bar' = r.bar
             /\ search_start' = r.start
             /\ query_with_cursor' = r.text
             /\ search_status' = r.status
    /\ UNCHANGED <<query, cursor, cursor_direction, width, is_grouped,
                   is_searching_with_pid>>
    /\ UNCHANGED table_vars

(* ------------------------------ host ----------------------------------- *)

Running == table_status # "panic" /\ search_status # "panic"

(* a change of the host's state starts a new frame: nothing is drawn yet *)
NewFrame ==
    /\ start_position' = 0
    /\ row_styles' = <<>>
    /\ column_widths' = <<>>
    /\ table_status' = "none"
    /\ search_start' = 0
    /\ query_with_cursor' = <<>>
    /\ search_status' = "none"

SearchInputsUnchanged ==
    UNCHANGED <<query, cursor, cursor_direction, cursor_bar, width, is_grouped,
                is_searching_with_pid, process_sorting_type>>

HostSetSelection ==
    /\ Running
    /\ \E s \in 0..MaxSel : current_scroll_position' = s
    /\ NewFrame
    /\ SearchInputsUnchanged
    /\ UNCHANGED <<process_data_len, previous_scroll_position, scroll_direction,
                   is_resized, height, current_widget_selected>>

HostSetDirection ==
    /\ Running
    /\ \E d \in {"UP", "DOWN"} : scroll_direction' = d
    /\ NewFrame
    /\ SearchInputsUnchanged
    /\ UNCHANGED <<process_data_len, current_scroll_position,
                   previous_scroll_position, is_resized, height,
                   current_widget_selected>>

HostSetHeight ==
    /\ Running
    /\ \E h \in Heights : height' = h
    /\ NewFrame
    /\ SearchInputsUnchanged
    /\ UNCHANGED <<process_data_len, current_scroll_position,
                   previous_scroll_position, scroll_direction, is_resized,
                   current_widget_selected>>

HostSetResized ==
    /\ Running
    /\ \E b \in BOOLEAN : is_resized' = b
    /\ NewFrame
    /\ SearchInputsUnchanged
    /\ UNCHANGED <<process_data_len, current_scroll_position,
                   previous_scroll_position, scroll_direction, height,
                   current_widget_selected>>

HostSetRows ==
    /\ Running
    /\ \E n \in 0..MaxRows : process_data_len' = n
    /\ NewFrame
    /\ SearchInputsUnchanged
    /\ UNCHANGED <<current_scroll_position, previous_scroll_position,
                   scroll_direction, is_resized, height, current_widget_selected>>

HostSetFocus ==
    /\ Running
    /\ \E w \in WidgetPositions : current_widget_selected' = w
    /\ NewFrame
    /\ SearchInputsUnchanged
    /\ UNCHANGED <<process_data_len, current_scroll_position,
                   previous_scroll_position, scroll_direction, is_resized, height>>

TableInputsUnchanged ==
    UNCHANGED <<process_data_len, current_scroll_position,
                previous_scroll_position, scroll_direction, is_resized, height,
                current_widget_selected, process_sorting_type>>

HostSetSorting ==
    /\ Running
    /\ \E k \in {"PID", "NAME", "CPU", "MEM"} : process_sorting_type' = k
    /\ NewFrame
    /\ UNCHANGED <<process_data_len, current_scroll_position,
                   previous_scroll_position, scroll_direction, is_resized, height,
                   current_widget_selected>>
    /\ UNCHANGED <<query, cursor, cursor_direction, cursor_bar, width, is_grouped,
                   is_searching_with_pid>>

(* the table is handed a rectangle of another width *)
HostSetTableWidth ==
    /\ Running
    /\ \E w \in 0..MaxTableWidth : width' = w
    /\ NewFrame
    /\ TableInputsUnchanged
    /\ UNCHANGED <<query, cursor, cursor_direction, cursor_bar, is_grouped,
                   is_searching_with_pid>>

(* a grapheme is typed at the caret *)
HostType ==
    /\ Running
    /\ Len(query) < MaxLen
    /\ \E g \in Graphemes :
         query' = SubSeq(query, 1, cursor) \o <<g>>
                  \o SubSeq(query, cursor + 1, Len(query))
    /\ cursor' = cursor + 1
    /\ NewFrame
    /\ TableInputsUnchanged
    /\ UNCHANGED <<cursor_direction, cursor_bar, width, is_grouped,
                   is_searching_with_pid>>

(* the grapheme before the caret is deleted *)
HostBackspace ==
    /\ Running
    /\ cursor > 0
    /\ query' = SubSeq(query, 1, cursor - 1) \o SubSeq(query, cursor + 1, Len(query))
    /\ cursor' = cursor - 1
    /\ NewFrame
    /\ TableInputsUnchanged
    /\ UNCHANGED <<cursor_direction, cursor_bar, width, is_grouped,
                   is_searching_with_pid>>

HostSetCursor ==
    /\ Running
    /\ \E c \in 0..Len(query) : cursor' = c
    /\ NewFrame
    /\ TableInputsUnchanged
    /\ UNCHANGED <<query, cursor_direction, cursor_bar, width, is_grouped,
                   is_searching_with_pid>>

HostSetCursorDirection ==
    /\ Running
    /\ \E d \in {"LEFT", "RIGHT"} : cursor_direction' = d
    /\ NewFrame
    /\ TableInputsUnchanged
    /\ UNCHANGED <<query, cursor, cursor_bar, width, is_grouped,
                   is_searching_with_pid>>

HostSetWidth ==
    /\ Running
    /\ \E w \in Widths : width' = w
    /\ NewFrame
    /\ TableInputsUnchanged
    /\ UNCHANGED <<query, cursor, cursor_direction, cursor_bar, is_grouped,
                   is_searching_with_pid>>

HostSetSearchMode ==
    /\ Running
    /\ \E g \in BOOLEAN, p \in BOOLEAN :
         /\ is_grouped' = g
         /\ is_searching_with_pid' = p
    /\ NewFrame
    /\ TableInputsUnchanged
    /\ UNCHANGED <<query, cursor, cursor_direction, cursor_bar, width>>

Init ==
    /\ process_data_len = 0
    /\ current_scroll_position = 0
    /\ previous_scroll_position = 0
    /\ scroll_direction = "DOWN"
    /\ is_resized = FALSE
    /\ height = MaxHeight
    /\ current_widget_selected = "Process"
    /\ start_position = 0
    /\ row_styles = <<>>
    /\ column_widths = <<>>
    /\ process_sorting_type = "CPU"
    /\ table_status = "none"
    /\ query = <<>>
    /\ cursor = 0
    /\ cursor_direction = "RIGHT"
    /\ cursor_bar = 0
    /\ width = 60
    /\ is_grouped = FALSE
    /\ is_searching_with_pid = FALSE
    /\ search_start = 0
    /\ query_with_cursor = <<>>
    /\ search_status = "none"

TableNext ==
    \/ HostSetSelection
    \/ HostSetDirection
    \/ HostSetHeight
    \/ HostSetResized
    \/ HostSetRows
    \/ HostSetFocus
    \/ DrawTable

SpecTable == Init /\ [][TableNext]_vars

SearchNext ==
    \/ HostType
    \/ HostBackspace
    \/ HostSetCursor
    \/ HostSetCursorDirection
    \/ HostSetWidth
    \/ HostSetSearchMode
    \/ HostSetResized
    \/ HostSetFocus
    \/ DrawSearch

SpecSearch == Init /\ [][SearchNext]_vars

WidthsNext ==
    \/ HostSetTableWidth
    \/ HostSetSorting
    \/ HostSetSearchMode
    \/ DrawTable

SpecWidths == Init /\ [][WidthsNext]_vars

(* ------------------------- table properties ---------------------------- *)

(* the top of the window a draw starts from: forgotten on a resize *)
base_top == IF is_resized THEN 0 ELSE previous_scroll_position

selection_visible ==
    /\ previous_scroll_position <= current_scroll_position
    /\ current_scroll_position < previous_scroll_position + Max(0, height - 5)

C9_RowHighlighting ==
    table_status # "none"
        => /\ ~selection_underflows(current_scroll_position, start_position,
                                    rendered_rows(process_data_len, start_position,
                                                  height),
                                    current_widget_selected)
           /\ \A i \in 1..Len(row_styles) :
                (row_styles[i] = "selected")
                    <=> /\ current_widget_selected = "Process"
                        /\ start_position + i - 1 = current_scroll_position

(* C10: after a draw both the index the rows are sliced at and the value   *)
(* left in previous_top lie in [0, max(0, row_count - 1)].                 *)
C10_TopClamped ==
    table_status # "none"
        => /\ start_position \in 0..Max(0, process_data_len - 1)
           /\ previous_scroll_position \in 0..Max(0, process_data_len - 1)

(* ---------------------- search field properties ------------------------ *)

(* the graphemes of the query among the rendered elements *)
emitted == SelectSeq(query_with_cursor, LAMBDA e : e.grapheme # 0)

selected_elements ==
    {i \in 1..Len(query_with_cursor) : query_with_cursor[i].style = "selected"}

(* C4: a second draw with identical inputs, from the state the first draw  *)
(* left behind, writes back the same previous_top and previous_left_column *)
(* and renders the same rows and graphemes.  The search field is checked   *)
(* in every reachable state after a draw, the table for every input in     *)
(* the model's bounds.                                                     *)
TableRedrawAgrees ==
    \A len \in 0..MaxRows, current \in 0..MaxSel, bar \in 0..(MaxSel + 1),
       direction \in {"UP", "DOWN"}, resized \in BOOLEAN, h \in Heights,
       focus \in WidgetPositions,
       outcome \in {"panic", "wrap"} :
        LET first == draw_processes_table(len, current, bar, direction, resized,
                                          h, MaxTableWidth, focus, FALSE, "CPU",
                                          outcome)
        IN  first.status = "drawn"
                => draw_processes_table(len, current, first.bar, direction,
                                        resized, h, MaxTableWidth, focus, FALSE,
                                        "CPU", outcome) = first

C4_DrawIdempotent ==
    search_status = "drawn"
        => /\ DrawSearchResult("wrap") =
                [bar |-> cursor_bar, start |-> search_start,
                 text |-> query_with_cursor, status |-> "drawn"]
           /\ TableRedrawAgrees

(* C4 witness: a draw has scrolled the query and hidden its first grapheme *)
C4_Witness ==
    /\ search_status = "drawn"
    /\ cursor_bar > 0
    /\ Len(emitted) < Len(query)

(* C6: for every rect_w >= 0 and every mode, rect_w - prompt_width - 5 is  *)
(* computed without unsigned underflow and the draw completes normally.    *)
C6_NoUnderflow ==
    search_status # "none"
        => /\ search_viewport(width, is_grouped, is_searching_with_pid) >= 0
           /\ search_status = "drawn"

(* C7: the graphemes rendered are exactly those whose running display      *)
(* column, their own width included, is strictly greater than left; they   *)
(* are a suffix of the query in its order, none split or repeated, with    *)
(* and without focus.                                                      *)
C7_EmittedSuffix ==
    search_status = "drawn"
        => LET n == Len(emitted)
               first == Len(query) - n + 1
           IN  /\ n <= Len(query)
               /\ \A j \in 1..n : emitted[j].grapheme = first + j - 1
               /\ \A i \in 1..Len(query) :
                    (i >= first) <=> (display_columns(query, i) > search_start)

(* C7 witness: a wide grapheme left of the window is dropped whole and the *)
(* rest of the query is rendered.                                          *)
C7_Witness ==
    /\ search_status = "drawn"
    /\ Len(query) = 2
    /\ query[1] = "cjk"
    /\ search_start > 0
    /\ Len(emitted) = 1

(* C8: with the focus on the search field exactly one rendered element has *)
(* the caret style: the grapheme that starts at the caret, or one appended *)
(* space when the caret is at or past the end of the query; without the    *)
(* focus no element has it.                                                *)
C8_CaretRendered ==
    search_status = "drawn"
        => IF current_widget_selected = "ProcessSearch"
           THEN /\ Cardinality(selected_elements) = 1
                /\ \A i \in selected_elements :
                     IF cursor >= Len(query)
                     THEN i = Len(query_with_cursor)
                          /\ query_with_cursor[i] = CaretSpace
                     ELSE query_with_cursor[i].grapheme = cursor + 1
           ELSE selected_elements = {}

(* ------------------------ column properties ---------------------------- *)

RECURSIVE SeqSum(_)
SeqSum(sq) == IF sq = <<>> THEN 0 ELSE Head(sq) + SeqSum(Tail(sq))

(* C5: for every rectangle width and sort key the widths the table is      *)
(* rendered with sum to at most rect_w, each is >= 1, and there are at     *)
(* most 4 of them, so taking them from the allocator's result is in        *)
(* bounds.                                                                 *)
C5_ColumnWidths ==
    table_status # "none"
        => /\ table_status = "drawn"
           /\ Len(column_widths) <= 4
           /\ SeqSum(column_widths) <= width
           /\ \A i \in 1..Len(column_widths) : column_widths[i] >= 1

(* C5 witness: a narrow rectangle in which the trailing columns were       *)
(* dropped and the leading ones rendered.                                  *)
C5_Witness ==
    /\ table_status = "drawn"
    /\ Len(column_widths) \in 1..3
    /\ process_sorting_type = "NAME"

====
